---------------------------- MODULE Spec2Model ----------------------------
(***************************************************************************)
(* CCPNetting: the pricing -> netting -> margin pipeline of run_sim.main   *)
(* and the library functions of src/pricing.py, src/netting.py and         *)
(* src/margin.py.                                                          *)
(*                                                                         *)
(* Fixed-point units (all arithmetic below is exact integer arithmetic):   *)
(*   notional   1 = 1,000,000 (currency units)                             *)
(*   rate       1 = 1 basis point (1e-4), so 0.0300 is 300                 *)
(*   spot       1 = 8e-9, so 1.1000 is 137500000 and 0.0050 is 625000      *)
(*   P&L, VM    1 = 8e-4 USD, so 360.00 is 450000 and 0.36 is 450          *)
(*   quantile   1 = 8e-6 USD (P&L unit / 100)                              *)
(*   IM         1 = sqrt(10) * 8e-6 USD                                    *)
(* A missing numeric cell (pandas NaN) is the empty tuple, a present one   *)
(* the 1-tuple of its value; a missing text cell is the string "nan".      *)
(***************************************************************************)
EXTENDS Integers, Sequences, FiniteSets, TLC

VARIABLES
    trades,          \* the trade table, one record per row (run_sim.py:54)
    rates,           \* the rates table, one record per row (run_sim.py:55)
    fx,              \* the FX table, one record per row (run_sim.py:56)
    stress_mult,     \* scenario parameters of main
    conc_threshold,
    conc_addon_pct,
    pc,              \* position in main
    error,           \* the exception that ended the run, "none" otherwise
    pnl_df,          \* per-trade P&L table
    bil_sets, ccp_set, bil_pnl, ccp_pnl,
    vm_bil_series, vm_ccp_series,
    im_bilateral, im_ccp,
    kpis,            \* the totals and ratios of run_sim.py:96-105
    results,         \* the Margin Snapshot, <<>> until it is written
    agg_pnl          \* what a direct call of compute_netting_metrics returned

vars == <<trades, rates, fx, stress_mult, conc_threshold, conc_addon_pct, pc,
          error, pnl_df, bil_sets, ccp_set, bil_pnl, ccp_pnl, vm_bil_series,
          vm_ccp_series, im_bilateral, im_ccp, kpis, results, agg_pnl>>

inputs == <<trades, rates, fx, stress_mult, conc_threshold, conc_addon_pct>>

----------------------------------------------------------------------------
(* Values *)

NaN == <<>>
Num(v) == <<v>>
IsNaN(x) == Len(x) = 0
Val(x) == x[1]

\* the sequence f itself, enumerated once (a function written [i \in 1..n |-> e]
\* is otherwise re-evaluated at every application)
AsTuple(f) == SubSeq(f, 1, Len(f))

RECURSIVE SumSeq(_)
SumSeq(s) == IF s = <<>> THEN 0 ELSE Head(s) + SumSeq(Tail(s))

MaxOf(S) == CHOOSE m \in S : \A x \in S : x <= m
MinOf(S) == CHOOSE m \in S : \A x \in S : m <= x

\* the column `col` of a market table as a sequence of cells
Column(df, col) == AsTuple([i \in 1..Len(df) |-> df[i][col]])

\* a slip: the difference taken against a prepended 0, so that the first cell
\* keeps the level of the first observation
diff_prepend_zero(s) ==
    [i \in 1..Len(s) |->
        IF i = 1 THEN (IF IsNaN(s[1]) THEN 0 ELSE Val(s[1]))
        ELSE IF IsNaN(s[i]) \/ IsNaN(s[i - 1]) THEN 0
        ELSE Val(s[i]) - Val(s[i - 1])]

\* Series.diff().fillna(0.0): the first cell and every difference that
\* involves a missing cell become 0
diff_fillna(s) ==
    AsTuple([i \in 1..Len(s) |->
                IF i = 1 \/ IsNaN(s[i]) \/ IsNaN(s[i - 1]) THEN 0
                ELSE Val(s[i]) - Val(s[i - 1])])

----------------------------------------------------------------------------
(* src/pricing.py *)

\* a slip: the bucket boundaries 2 and 5 fall to the upper bucket
map_tenor_to_curve_col_exclusive(tenor_yrs) ==
    IF tenor_yrs < 2 THEN "rate_2y"
    ELSE IF tenor_yrs < 5 THEN "rate_5y"
    ELSE "rate_10y"

map_tenor_to_curve_col(tenor_yrs) ==
    IF tenor_yrs <= 2 THEN "rate_2y"
    ELSE IF tenor_yrs <= 5 THEN "rate_5y"
    ELSE "rate_10y"

\* a slip: the factor 0.9 is left out
dv01_usd_no_haircut(notional, tenor_yrs) == (notional * (8 * tenor_yrs) * 10) \div 8

\* notional * (0.8 * tenor) * 1e-4 * 0.9, as P&L units per basis point:
\* N[1e6] * (8 t / 10) * 1e-4 * (9 / 10) USD per 1.0 of rate
\*   = N * 8 t * 9 * 1e-4 USD per basis point = N * 8 t * 9 / 8 P&L units
dv01_usd(notional, tenor_yrs) == (notional * (8 * tenor_yrs) * 9) \div 8

\* a truthiness test of Python: only False is falsy among True, False, nan
Truthy(v) == v # "False"

Series(vals) == [error |-> "none", vals |-> AsTuple(vals)]
Raise(msg) == [error |-> msg, vals |-> <<>>]

pnl_irs_dv01(trade_row, rates_df) ==
    IF IsNaN(trade_row.tenor_yrs)
    THEN Raise("ValueError: cannot convert float NaN to integer")
    ELSE
    LET tenor == Val(trade_row.tenor_yrs)
        col == map_tenor_to_curve_col(tenor)
        dr == diff_fillna(Column(rates_df, col))
        dv01 == dv01_usd(trade_row.notional, tenor)
        sign == IF Truthy(trade_row.pay_fixed) THEN 1 ELSE -1
    IN Series([i \in 1..Len(dr) |-> sign * dv01 * (-dr[i])])

\* the pair columns of the FX table
FxColumns == {"EURUSD", "GBPUSD"}

\* a slip: the side is ignored, every forward is priced as bought
pnl_fxfwd_unsigned(trade_row, fx_df) ==
    LET pair == trade_row.ccypair
    IN IF pair \notin FxColumns
       THEN Raise("ValueError: FX pair not found in fx data.")
       ELSE
       LET dS == diff_fillna(Column(fx_df, pair))
       IN Series([i \in 1..Len(dS) |-> trade_row.notional * dS[i] * 10])

\* a slip: the spot series is always that of EURUSD
pnl_fxfwd_eurusd(trade_row, fx_df) ==
    LET pair == trade_row.ccypair
    IN IF pair \notin FxColumns
       THEN Raise("ValueError: FX pair not found in fx data.")
       ELSE
       LET dS == diff_fillna(Column(fx_df, "EURUSD"))
           sign == IF trade_row.side = "BUY" THEN 1 ELSE -1
       IN Series([i \in 1..Len(dS) |-> sign * trade_row.notional * dS[i] * 10])

\* notional * dS: N[1e6] * dS[8e-9] = 8e-3 N dS USD = 10 N dS P&L units
pnl_fxfwd(trade_row, fx_df) ==
    LET pair == trade_row.ccypair
    IN IF pair \notin FxColumns
       THEN Raise("ValueError: FX pair not found in fx data.")
       ELSE
       LET dS == diff_fillna(Column(fx_df, pair))
           sign == IF trade_row.side = "BUY" THEN 1 ELSE -1
       IN Series([i \in 1..Len(dS) |-> sign * trade_row.notional * dS[i] * 10])

\* a slip: a row of an unsupported product, or of a pair without data, is
\* skipped with a flat series instead of ending the run
TradePnl_skipping(tr, rates_df, fx_df) ==
    IF tr.product = "IRS" THEN pnl_irs_dv01(tr, rates_df)
    ELSE IF tr.product = "FXFWD" /\ tr.ccypair \in FxColumns THEN pnl_fxfwd(tr, fx_df)
    ELSE Series([i \in 1..Len(rates_df) |-> 0])

\* the loop body of pnl_timeseries for one row
TradePnl(tr, rates_df, fx_df) ==
    IF tr.product = "IRS" THEN pnl_irs_dv01(tr, rates_df)
    ELSE IF tr.product = "FXFWD" THEN pnl_fxfwd(tr, fx_df)
    ELSE Raise("ValueError: Unsupported product")

Frame(index, cols) == [error |-> "none", index |-> index, cols |-> AsTuple(cols)]
NoFrame(msg) == [error |-> msg, index |-> <<>>, cols |-> <<>>]

\* A P&L table: `index` the dates, `cols` one [name, vals] per trade.  A
\* column shorter than the index is missing (NaN) on the trailing rows:
\* pd.concat(axis=1) joins the series on their own row numbers.
pnl_timeseries(trades_df, rates_df, fx_df) ==
    LET n == Len(trades_df)
        pnl_cols == AsTuple([i \in 1..n |-> TradePnl(trades_df[i], rates_df, fx_df)])
        bad == {i \in 1..n : pnl_cols[i].error # "none"}
    IN IF bad # {} THEN NoFrame(pnl_cols[MinOf(bad)].error)
       ELSE IF n = 0 THEN NoFrame("ValueError: No objects to concatenate")
       ELSE
       LET nrows == MaxOf({Len(pnl_cols[i].vals) : i \in 1..n})
       IN IF nrows # Len(rates_df)
          THEN NoFrame("ValueError: Length mismatch")
          ELSE Frame(Column(rates_df, "date"),
                     [i \in 1..n |-> [name |-> trades_df[i].trade_id,
                                      vals |-> pnl_cols[i].vals]])

\* a slip: only the first trade's column is multiplied
Scale_first_column(df, k) ==
    Frame(df.index,
          [c \in 1..Len(df.cols) |->
              [name |-> df.cols[c].name,
               vals |-> AsTuple([i \in 1..Len(df.cols[c].vals) |->
                                    IF c = 1 THEN df.cols[c].vals[i] * k
                                    ELSE df.cols[c].vals[i]])]])

\* a slip: the product pnl_df * stress_mult is computed and dropped
Scale_dropped(df, k) == df

\* pnl_df * float(stress_mult)
Scale(df, k) ==
    Frame(df.index,
          [c \in 1..Len(df.cols) |->
              [name |-> df.cols[c].name,
               vals |-> AsTuple([i \in 1..Len(df.cols[c].vals) |->
                                    df.cols[c].vals[i] * k])]])

----------------------------------------------------------------------------
(* src/netting.py *)

\* the counterparty identifiers, in the order DataFrame.groupby sorts them
Counterparties == <<"CP_A", "CP_B", "CP_C">>

TradeIdsOf(rows) == AsTuple([i \in 1..Len(rows) |-> rows[i].trade_id])

\* a slip: groupby(sort=False), the keys come in the order of their first row
GroupKeys_first_seen(trades_df) ==
    LET seen[i \in 0..Len(trades_df)] ==
            IF i = 0 THEN <<>>
            ELSE IF \/ trades_df[i].cpty = "nan"
                    \/ \E j \in 1..(i - 1) : trades_df[j].cpty = trades_df[i].cpty
                 THEN seen[i - 1]
                 ELSE Append(seen[i - 1], trades_df[i].cpty)
    IN seen[Len(trades_df)]

\* trades.groupby("cpty"): one group per distinct key in sorted order, the
\* rows of a group in table order; rows whose key is missing are in no group
GroupKeys(trades_df) ==
    SelectSeq(Counterparties,
              LAMBDA c : \E i \in 1..Len(trades_df) : trades_df[i].cpty = c)

\* a slip: a group keeps the first row of its counterparty only
Group_first_row(trades_df, cpty) ==
    LET rows == SelectSeq(trades_df, LAMBDA tr : tr.cpty = cpty)
    IN IF rows = <<>> THEN rows ELSE <<Head(rows)>>

Group(trades_df, cpty) == SelectSeq(trades_df, LAMBDA tr : tr.cpty = cpty)

\* a netting map is a sequence of [name, ids] in dict insertion order; the
\* name f"BILAT::{cpty}" is the pair <<"BILAT", cpty>>
netting_sets_bilateral(trades_df) ==
    LET keys == GroupKeys(trades_df)
    IN AsTuple([k \in 1..Len(keys) |->
                   [name |-> <<"BILAT", keys[k]>>,
                    ids |-> TradeIdsOf(Group(trades_df, keys[k]))]])

netting_set_ccp(trades_df) ==
    <<[name |-> <<"CCP", "ALL">>, ids |-> TradeIdsOf(trades_df)]>>

ColumnNames(df) == {df.cols[c].name : c \in 1..Len(df.cols)}

\* a slip: every column of the table is summed, member of the set or not
RowSum_all_columns(df, ids, i) ==
    SumSeq([c \in 1..Len(df.cols) |->
               IF i <= Len(df.cols[c].vals) THEN df.cols[c].vals[i] ELSE 0])

\* pnl_df[cols].sum(axis=1): per date, the sum of the present cells of the
\* selected columns (missing cells are skipped, no column gives 0)
RowSum(df, ids, i) ==
    LET picked == SelectSeq(ids, LAMBDA c : c \in ColumnNames(df))
        cell(c) == LET col == CHOOSE k \in 1..Len(df.cols) : df.cols[k].name = c
                   IN IF i <= Len(df.cols[col].vals) THEN df.cols[col].vals[i] ELSE 0
    IN SumSeq([j \in 1..Len(picked) |-> cell(picked[j])])

\* pd.DataFrame(out): with no set at all the frame has no rows either
aggregate_set_pnl(df, netting_map) ==
    Frame(IF netting_map = <<>> THEN <<>> ELSE df.index,
          [s \in 1..Len(netting_map) |->
              [name |-> netting_map[s].name,
               vals |-> AsTuple([i \in 1..Len(df.index) |->
                                    RowSum(df, netting_map[s].ids, i)])]])

\* {**bilateral_sets, **ccp_set}
compute_netting_metrics(df, trades_df) ==
    aggregate_set_pnl(df, netting_sets_bilateral(trades_df) \o netting_set_ccp(trades_df))

----------------------------------------------------------------------------
(* src/margin.py *)

\* a slip: the clip is left out
vm_outflows_unclipped(pnl_series) ==
    AsTuple([i \in 1..Len(pnl_series) |-> -pnl_series[i]])

\* (-pnl_series).clip(lower=0.0)
vm_outflows(pnl_series) ==
    AsTuple([i \in 1..Len(pnl_series) |->
                IF -pnl_series[i] < 0 THEN 0 ELSE -pnl_series[i]])

\* a slip: the sample is ranked from the largest loss down, which gives the
\* quantile of the other tail
Quantile99_descending(sample) ==
    LET x == SortSeq(sample, LAMBDA a, b : a > b)
        n == Len(x)
        lo == ((n - 1) * 99) \div 100
        frac == ((n - 1) * 99) % 100
    IN IF frac = 0 THEN 100 * x[lo + 1]
       ELSE (100 - frac) * x[lo + 1] + frac * x[lo + 2]

\* the linear-interpolated quantile at cl = 0.99 of a non-empty sample, times
\* 100: with h = (n - 1) * 99 / 100, x[floor h] + frac(h) * (x[floor h + 1] - x[floor h]),
\* here as (1 - frac(h)) * x[floor h] + frac(h) * x[floor h + 1]
Quantile99(sample) ==
    LET x == SortSeq(sample, LAMBDA a, b : a < b)
        n == Len(x)
        lo == ((n - 1) * 99) \div 100
        frac == ((n - 1) * 99) % 100
    IN IF frac = 0 THEN 100 * x[lo + 1]
       ELSE (100 - frac) * x[lo + 1] + frac * x[lo + 2]

\* np.quantile (fewer than 50 losses) and Series.quantile(interpolation=
\* "linear") are the same estimator; the result is in units of sqrt(10)/100.
\* The series main hands over has one cell per date and no missing cell.
im_hs_var(pnl_series) ==
    LET losses == AsTuple([i \in 1..Len(pnl_series) |-> -pnl_series[i]])
    IN IF Len(losses) < 50 THEN Quantile99(losses) ELSE Quantile99(losses)

----------------------------------------------------------------------------
(* run_sim.py: main *)

RECURSIVE Gcd(_, _)
Gcd(a, b) == IF b = 0 THEN a ELSE Gcd(b, a % b)
Abs(x) == IF x < 0 THEN -x ELSE x

\* the fraction num / den (den > 0) in lowest terms, as the pair <<n, d>>
Ratio(num, den) ==
    LET g == Gcd(Abs(num), den) IN <<num \div g, den \div g>>

\* sum over the columns of a frame, per row: DataFrame.sum(axis=1)
SumColumns(df) ==
    AsTuple([i \in 1..Len(df.index) |->
                SumSeq([c \in 1..Len(df.cols) |-> df.cols[c].vals[i]])])

\* bil_pnl.apply(vm_outflows).sum(axis=1)
VmBilSeries(df) ==
    SumColumns(Frame(df.index,
                     [c \in 1..Len(df.cols) |->
                         [name |-> df.cols[c].name,
                          vals |-> vm_outflows(df.cols[c].vals)]]))

\* sum(im_hs_var(bil_pnl[col]) for col in bil_pnl.columns)
ImBilateral(df) == SumSeq([c \in 1..Len(df.cols) |-> im_hs_var(df.cols[c].vals)])

\* trades.groupby("cpty")["notional"].apply(lambda s: float(np.abs(s).sum()))
AbsNotional(rows) == SumSeq([i \in 1..Len(rows) |-> Abs(rows[i].notional)])

abs_notional_by_cpty(trades_df) ==
    LET keys == GroupKeys(trades_df)
    IN AsTuple([k \in 1..Len(keys) |-> AbsNotional(Group(trades_df, keys[k]))])

\* a variant: the surcharge compounds, (1 + pct) per breaching counterparty
addon_factor_bil_compounding(trades_df, threshold, pct) ==
    LET by_cpty == abs_notional_by_cpty(trades_df)
        breaching == {k \in 1..Len(by_cpty) : by_cpty[k] > threshold}
        pow[n \in 0..Len(by_cpty)] == IF n = 0 THEN 1 ELSE (1 + pct) * pow[n - 1]
    IN pow[Cardinality(breaching)]

\* addon_factor_bil: 1.0, plus conc_addon_pct per breaching counterparty
addon_factor_bil(trades_df, threshold, pct) ==
    LET by_cpty == abs_notional_by_cpty(trades_df)
        breaching == {k \in 1..Len(by_cpty) : by_cpty[k] > threshold}
    IN 1 + pct * Cardinality(breaching)

\* a slip: the CCP surcharge is counted per breaching counterparty as well
addon_factor_ccp_per_cpty(trades_df, threshold, pct) ==
    addon_factor_bil(trades_df, threshold, pct)

\* (1.0 + conc_addon_pct) once if the whole book exceeds the threshold
addon_factor_ccp(trades_df, threshold, pct) ==
    IF AbsNotional(trades_df) > threshold THEN 1 + pct ELSE 1

\* a slip: rolling(5, min_periods=1), the leading shorter windows count too
Worst5_min_periods_1(series) ==
    IF Len(series) < 1 THEN NaN
    ELSE Num(MaxOf({SumSeq(SubSeq(series, IF i > 4 THEN i - 4 ELSE 1, i)) :
                        i \in 1..Len(series)}))

\* series.rolling(5).sum().max(): the largest sum of 5 consecutive cells,
\* missing when the series has fewer than 5 cells
Worst5(series) ==
    IF Len(series) < 5 THEN NaN
    ELSE Num(MaxOf({SumSeq(SubSeq(series, i - 4, i)) : i \in 5..Len(series)}))

\* a variant: the guard tests for zero only
net_eff_unless_zero(imc, imb) ==
    IF imb # 0 THEN Ratio((imb - imc) * (IF imb < 0 THEN -1 ELSE 1), Abs(imb)) ELSE NaN

\* 1.0 - (im_ccp / im_bilateral) if im_bilateral > 0 else np.nan
net_eff(imc, imb) == IF imb > 0 THEN Ratio(imb - imc, imb) ELSE NaN

\* (im_ccp + vm_ccp) - (im_bil + vm_bil), kept as its IM part (a multiple of
\* sqrt(10)/100) and its VM part
collateral_delta(imc, vmc, imb, vmb) == [im |-> imc - imb, vm |-> vmc - vmb]

NoTable == Frame(<<>>, <<>>)

Begin(at, table, t, r, f, k, threshold, pct) ==
    /\ trades = t
    /\ rates = r
    /\ fx = f
    /\ stress_mult = k
    /\ conc_threshold = threshold
    /\ conc_addon_pct = pct
    /\ pc = at
    /\ error = "none"
    /\ pnl_df = table
    /\ bil_sets = <<>>
    /\ ccp_set = <<>>
    /\ bil_pnl = NoTable
    /\ ccp_pnl = NoTable
    /\ vm_bil_series = <<>>
    /\ vm_ccp_series = <<>>
    /\ im_bilateral = 0
    /\ im_ccp = 0
    /\ kpis = <<>>
    /\ results = <<>>
    /\ agg_pnl = NoTable

\* the state in which main starts
Start(t, r, f, k, threshold, pct) ==
    Begin("start", NoTable, t, r, f, k, threshold, pct)

\* run_sim.py:63-66
Price ==
    /\ pc = "start"
    /\ LET priced == pnl_timeseries(trades, rates, fx)
       IN IF priced.error # "none"
          THEN /\ pc' = "failed"
               /\ error' = priced.error
               /\ UNCHANGED pnl_df
          ELSE /\ pc' = "priced"
               /\ pnl_df' = IF stress_mult # 1 THEN Scale(priced, stress_mult)
                            ELSE priced
               /\ UNCHANGED error
    /\ UNCHANGED <<inputs, agg_pnl, bil_sets, ccp_set, bil_pnl, ccp_pnl, vm_bil_series,
                   vm_ccp_series, im_bilateral, im_ccp, kpis, results>>

\* run_sim.py:68-73
Netting ==
    /\ pc = "priced"
    /\ bil_sets' = netting_sets_bilateral(trades)
    /\ ccp_set' = netting_set_ccp(trades)
    /\ bil_pnl' = aggregate_set_pnl(pnl_df, bil_sets')
    /\ ccp_pnl' = aggregate_set_pnl(pnl_df, ccp_set')
    /\ pc' = "netted"
    /\ UNCHANGED <<inputs, agg_pnl, error, pnl_df, vm_bil_series, vm_ccp_series,
                   im_bilateral, im_ccp, kpis, results>>

\* run_sim.py:75-81
Margin ==
    /\ pc = "netted"
    /\ vm_bil_series' = VmBilSeries(bil_pnl)
    /\ vm_ccp_series' = vm_outflows(ccp_pnl.cols[1].vals)
    /\ im_bilateral' = ImBilateral(bil_pnl)
    /\ im_ccp' = im_hs_var(ccp_pnl.cols[1].vals)
    /\ pc' = "margined"
    /\ UNCHANGED <<inputs, agg_pnl, error, pnl_df, bil_sets, ccp_set, bil_pnl, ccp_pnl,
                   kpis, results>>

\* run_sim.py:83-94
AddOn ==
    /\ pc = "margined"
    /\ IF conc_threshold > 0 /\ conc_addon_pct > 0
       THEN /\ im_bilateral' = im_bilateral
                    * addon_factor_bil(trades, conc_threshold, conc_addon_pct)
            /\ im_ccp' = im_ccp
                    * addon_factor_ccp(trades, conc_threshold, conc_addon_pct)
       ELSE UNCHANGED <<im_bilateral, im_ccp>>
    /\ pc' = "adjusted"
    /\ UNCHANGED <<inputs, agg_pnl, error, pnl_df, bil_sets, ccp_set, bil_pnl, ccp_pnl,
                   vm_bil_series, vm_ccp_series, kpis, results>>

\* run_sim.py:96-105
Kpis ==
    /\ pc = "adjusted"
    /\ LET vm_bilateral_total == SumSeq(vm_bil_series)
           vm_ccp_total == SumSeq(vm_ccp_series)
       IN kpis' = [vm_bilateral_total |-> vm_bilateral_total,
                   vm_ccp_total |-> vm_ccp_total,
                   worst5_bil |-> Worst5(vm_bil_series),
                   worst5_ccp |-> Worst5(vm_ccp_series),
                   net_eff |-> net_eff(im_ccp, im_bilateral),
                   coll_delta |-> collateral_delta(im_ccp, vm_ccp_total,
                                       im_bilateral, vm_bilateral_total)]
    /\ pc' = "kpis"
    /\ UNCHANGED <<inputs, agg_pnl, error, pnl_df, bil_sets, ccp_set, bil_pnl, ccp_pnl,
                   vm_bil_series, vm_ccp_series, im_bilateral, im_ccp, results>>

\* Series.plot of a series without rows (no bilateral set at all) is the one
\* call of the chart helpers that can raise; pandas decides, so both outcomes
\* are kept
PlotOutcomes ==
    IF vm_bil_series = <<>>
    THEN {"none", "TypeError: no numeric data to plot"}
    ELSE {"none"}

\* run_sim.py:107-126
Persist ==
    /\ pc = "kpis"
    /\ \E outcome \in PlotOutcomes :
          IF outcome # "none"
          THEN /\ pc' = "failed"
               /\ error' = outcome
               /\ UNCHANGED results
          ELSE /\ pc' = "done"
               /\ results' = [im_bilateral |-> im_bilateral,
                              im_ccp |-> im_ccp,
                              netting_efficiency |-> kpis.net_eff,
                              vm_bilateral_total |-> kpis.vm_bilateral_total,
                              vm_ccp_total |-> kpis.vm_ccp_total,
                              collateral_delta |-> kpis.coll_delta,
                              worst5_liquidity_bilateral |-> kpis.worst5_bil,
                              worst5_liquidity_ccp |-> kpis.worst5_ccp,
                              stress_mult |-> stress_mult,
                              concentration_threshold |-> conc_threshold,
                              concentration_addon_pct |-> conc_addon_pct]
               /\ UNCHANGED error
    /\ UNCHANGED <<inputs, agg_pnl, pnl_df, bil_sets, ccp_set, bil_pnl, ccp_pnl,
                   vm_bil_series, vm_ccp_series, im_bilateral, im_ccp, kpis>>

Next == Price \/ Netting \/ Margin \/ AddOn \/ Kpis \/ Persist

----------------------------------------------------------------------------
(* Inputs: the tables read_csv can hand to main, drawn from bounded sets *)

MaxTrades == 2      \* rows of a trade book
MaxDates == 6       \* rows of the market tables on the long paths

TradeIds == <<"T1", "T2", "T3", "T4">>

Irs(tenor, pay_fixed) ==
    [product |-> "IRS", tenor_yrs |-> tenor, pay_fixed |-> pay_fixed,
     ccypair |-> "nan", side |-> "nan"]
FxFwd(pair, side) ==
    [product |-> "FXFWD", tenor_yrs |-> NaN, pay_fixed |-> "nan",
     ccypair |-> pair, side |-> side]
Swaption ==
    [product |-> "SWAPTION", tenor_yrs |-> NaN, pay_fixed |-> "nan",
     ccypair |-> "nan", side |-> "nan"]

Row(id, spec) ==
    [trade_id |-> id, cpty |-> spec[1], notional |-> spec[2],
     product |-> spec[3].product, tenor_yrs |-> spec[3].tenor_yrs,
     pay_fixed |-> spec[3].pay_fixed, ccypair |-> spec[3].ccypair,
     side |-> spec[3].side]

\* the books of exactly n rows over the row choices `specs`; trade_id is unique
BooksOf(n, specs) ==
    {[i \in 1..n |-> Row(TradeIds[i], f[i])] : f \in [1..n -> specs]}

Notionals == {1, 2}      \* millions
Stresses == {1, 2}       \* stress_mult
\* <<conc_threshold (millions), conc_addon_pct (1 = 100%)>>
AddOnSettings == {<<0, 0>>, <<0, 1>>, <<1, 0>>, <<1, 1>>, <<2, 1>>, <<1, 2>>}

IrsKinds ==
    {Irs(Num(t), p) : t \in {2, 3, 5, 6}, p \in {"True", "False", "nan"}}
        \cup {Irs(NaN, "True")}
FxKinds ==
    {FxFwd(pair, side) : pair \in FxColumns, side \in {"BUY", "SELL", "nan"}}
        \cup {FxFwd("USDJPY", "BUY"), FxFwd("nan", "BUY"), FxFwd("EURUSD", "HOLD")}

\* curve points in basis points, spot levels in ticks of 8e-9
Curve(r2, r5, r10) == [rate_2y |-> Num(r2), rate_5y |-> Num(r5), rate_10y |-> Num(r10)]
Spot(eur, gbp) == [EURUSD |-> eur, GBPUSD |-> gbp]

FlatCurve == Curve(300, 300, 300)
CurveStates == {FlatCurve, Curve(301, 298, 304), Curve(299, 303, 295)}
BaseSpot == Spot(Num(137500000), Num(162500000))
SpotStates == {Spot(Num(137500001), Num(162499998)),
               Spot(NaN, Num(162500001)),
               Spot(Num(137499998), Num(162500003))}

RatesTable(dates, curves) ==
    [i \in 1..Len(dates) |->
        [date |-> dates[i], rate_2y |-> curves[i].rate_2y,
         rate_5y |-> curves[i].rate_5y, rate_10y |-> curves[i].rate_10y]]
FxTable(dates, spots) ==
    [i \in 1..Len(dates) |->
        [date |-> dates[i], EURUSD |-> spots[i].EURUSD, GBPUSD |-> spots[i].GBPUSD]]

\* tables of three dates that start from the base level
ShortRates ==
    {RatesTable(<<1, 2, 3>>, <<FlatCurve, a, b>>) : a, b \in CurveStates}
FlatRates(n) == RatesTable([i \in 1..n |-> i], [i \in 1..n |-> FlatCurve])
MovingRates == RatesTable(<<1, 2, 3>>, <<FlatCurve, Curve(301, 298, 304), Curve(299, 303, 295)>>)

\* the FX table may cover other dates than the rates table: fewer, more, or
\* with a date missing in the middle
FxDateLists == {<<1, 2, 3>>, <<1, 2>>, <<1, 3>>}
ShortFx ==
    {FxTable(d, [i \in 1..Len(d) |-> IF i = 1 THEN BaseSpot ELSE f[i]]) :
        d \in FxDateLists, f \in [1..3 -> SpotStates]}
    \cup {FxTable(<<1, 2, 3, 4>>, <<BaseSpot, a, b, BaseSpot>>) : a, b \in SpotStates}
    \cup {FxTable(<<1, 2, 3>>, <<Spot(NaN, NaN), BaseSpot, a>>) : a \in SpotStates}
MovingFx == FxTable(<<1, 2, 3>>, <<BaseSpot, Spot(Num(137500001), Num(162499998)),
                                   Spot(Num(137499999), Num(162500003))>>)

\* one trade of every kind, priced on every short table
InitPricing ==
    \E n \in Notionals, k \in Stresses :
        \/ \E kind \in IrsKinds, r \in ShortRates :
              Start(<<Row("T1", <<"CP_A", n, kind>>)>>, r, MovingFx, k, 0, 0)
        \/ \E kind \in FxKinds \cup {Swaption}, f \in ShortFx :
              Start(<<Row("T1", <<"CP_A", n, kind>>)>>, MovingRates, f, k, 0, 0)

\* books of mixed products, one of which may fail to price
MixedSpecs ==
    {<<"CP_A", 1, kind>> :
        kind \in {Irs(Num(5), "True"), FxFwd("EURUSD", "BUY"),
                  FxFwd("GBPUSD", "SELL"), FxFwd("USDJPY", "BUY"), Swaption}}
InitMixed ==
    \E n \in 0..MaxTrades :
        \E book \in BooksOf(n, MixedSpecs), f \in ShortFx, k \in Stresses :
            Start(book, MovingRates, f, k, 0, 0)

\* books of FX forwards against several counterparties (or none), with every
\* setting of the concentration add-on
NettingSpecs ==
    {<<cpty, n, kind>> :
        cpty \in {"CP_A", "CP_B", "nan"}, n \in Notionals,
        kind \in {FxFwd("EURUSD", "BUY"), FxFwd("EURUSD", "SELL")}}
InitNetting ==
    \E n \in 1..MaxTrades :
        \E book \in BooksOf(n, NettingSpecs), k \in Stresses, addon \in AddOnSettings :
            Start(book, MovingRates, MovingFx, k, addon[1], addon[2])

\* FX paths of up to MaxDates dates moving one tick a day
RECURSIVE Walks(_)
Walks(n) ==
    IF n = 1 THEN {<<0>>}
    ELSE {Append(w, w[n - 1] + d) : w \in Walks(n - 1), d \in {-1, 0, 1}}
WalkFx(w) ==
    FxTable([i \in 1..Len(w) |-> i],
            [i \in 1..Len(w) |-> Spot(Num(137500000 + w[i]), Num(162500000 - 2 * w[i]))])
PathBooks ==
    {<<Row("T1", <<"CP_A", 1, FxFwd("EURUSD", "BUY")>>)>>,
     <<Row("T1", <<"CP_A", 1, FxFwd("EURUSD", "BUY")>>),
       Row("T2", <<"CP_A", 1, FxFwd("EURUSD", "SELL")>>)>>,
     <<Row("T1", <<"CP_A", 1, FxFwd("EURUSD", "BUY")>>),
       Row("T2", <<"CP_B", 1, FxFwd("EURUSD", "SELL")>>)>>,
     <<Row("T1", <<"CP_A", 2, FxFwd("EURUSD", "BUY")>>),
       Row("T2", <<"CP_B", 1, FxFwd("GBPUSD", "BUY")>>)>>}
InitPath ==
    \E n \in 1..MaxDates :
        \E w \in Walks(n), book \in PathBooks, k \in Stresses :
            Start(book, FlatRates(n), WalkFx(w), k, 0, 0)

\* the two worked examples: 1,000,000 of a 5-year payer swap when the 5-year
\* point goes 0.0300 -> 0.0290, and BUY 2,000,000 EURUSD when the spot goes
\* 1.1000 -> 1.1050
InitScenario ==
    \/ Start(<<Row("T1", <<"CP_A", 1, Irs(Num(5), "True")>>)>>,
             RatesTable(<<1, 2>>, <<FlatCurve, Curve(300, 290, 300)>>),
             MovingFx, 1, 0, 0)
    \/ Start(<<Row("T1", <<"CP_A", 2, FxFwd("EURUSD", "BUY")>>)>>,
             FlatRates(2),
             FxTable(<<1, 2>>, <<BaseSpot, Spot(Num(138125000), Num(162500000))>>),
             1, 0, 0)

Init == InitPricing \/ InitMixed \/ InitNetting \/ InitPath \/ InitScenario

Spec == Init /\ [][Next]_vars

----------------------------------------------------------------------------
(* The library entry point compute_netting_metrics, called with a P&L table *)
(* of the caller's own: its columns need not be the trades of the book      *)

\* src/netting.py:19-40
ComputeNettingMetrics ==
    /\ pc = "call"
    /\ agg_pnl' = compute_netting_metrics(pnl_df, trades)
    /\ pc' = "returned"
    /\ UNCHANGED <<inputs, error, pnl_df, bil_sets, ccp_set, bil_pnl, ccp_pnl,
                   vm_bil_series, vm_ccp_series, im_bilateral, im_ccp, kpis,
                   results>>

ColumnVals == {<<0, 1>>, <<0, -2>>, <<0, 3>>, <<0>>}
PnlTables ==
    {Frame(<<1, 2>>, [c \in 1..Len(names) |-> [name |-> names[c], vals |-> f[c]]]) :
        names \in {<<>>, <<"T1">>, <<"T2">>, <<"T9">>, <<"T1", "T2">>,
                   <<"T2", "T1">>, <<"T1", "T9">>, <<"T1", "T2", "T9">>},
        f \in [1..3 -> ColumnVals]}
LibSpecs == {<<cpty, 1, FxFwd("EURUSD", "BUY")>> : cpty \in {"CP_A", "CP_B", "nan"}}

InitMetrics ==
    \E n \in 0..MaxTrades :
        \E book \in BooksOf(n, LibSpecs), table \in PnlTables :
            Begin("call", table, book, FlatRates(2), MovingFx, 1, 0, 0)

NextMetrics == ComputeNettingMetrics

SpecMetrics == InitMetrics /\ [][NextMetrics]_vars

----------------------------------------------------------------------------
(* Claims *)

ToSet(s) == {s[i] : i \in 1..Len(s)}
Rows == 1..Len(trades)
Netted == ccp_set # <<>>
Priced == pnl_df.cols # <<>>
Margined == pc \in {"margined", "adjusted", "kpis", "done"}
AddOnEnabled == conc_threshold > 0 /\ conc_addon_pct > 0
SetIds(netting_map) == [s \in 1..Len(netting_map) |-> ToSet(netting_map[s].ids)]

\* C1: the bilateral netting sets partition the book: they are pairwise
\* disjoint, their union is the trade-identifier list of the CCP set, and
\* every trade of the book (also one without a counterparty) is in exactly
\* one of them.
C1_BilateralPartition ==
    Netted =>
        LET ids == SetIds(bil_sets)
        IN /\ \A s, t \in DOMAIN ids : s # t => ids[s] \cap ids[t] = {}
           /\ UNION {ids[s] : s \in DOMAIN ids} = ToSet(ccp_set[1].ids)
           /\ \A i \in Rows :
                 Cardinality({s \in DOMAIN ids : trades[i].trade_id \in ids[s]}) = 1

\* C2: on every date and for every netting set the VM outflow is >= 0, is
\* -P&L when P&L < 0 and 0 otherwise; the VM paths of main are made of these.
Outflow(p) == IF p < 0 THEN -p ELSE 0
C2_VmNonNegative ==
    Margined =>
        /\ \A c \in DOMAIN bil_pnl.cols \cup {0} :
              LET series == IF c = 0 THEN ccp_pnl.cols[1].vals ELSE bil_pnl.cols[c].vals
                  vm == vm_outflows(series)
              IN /\ Len(vm) = Len(series)
                 /\ \A i \in DOMAIN series :
                       vm[i] >= 0 /\ vm[i] = Outflow(series[i])
        /\ \A i \in DOMAIN vm_ccp_series :
              vm_ccp_series[i] = Outflow(ccp_pnl.cols[1].vals[i])
        /\ \A i \in DOMAIN vm_bil_series :
              /\ vm_bil_series[i] >= 0
              /\ vm_bil_series[i] =
                    SumSeq([c \in DOMAIN bil_pnl.cols |-> Outflow(bil_pnl.cols[c].vals[i])])
        /\ Len(vm_ccp_series) = Len(rates)

\* a loss day and a gain day of the pooled set have both been through
\* vm_outflows
C2_Witness ==
    /\ pc = "margined"
    /\ bil_pnl.cols # <<>>
    /\ \E i, j \in DOMAIN vm_ccp_series :
          /\ ccp_pnl.cols[1].vals[i] < 0 /\ vm_ccp_series[i] > 0
          /\ ccp_pnl.cols[1].vals[j] > 0 /\ vm_ccp_series[j] = 0

Times(k, series) == AsTuple([i \in DOMAIN series |-> k * series[i]])

\* C3: scaling every P&L observation by k >= 1 scales the HS-VaR IM by
\* exactly k, so without the concentration add-on im_bilateral and im_ccp
\* at stress_mult = k are k times their values at stress_mult = 1.
\* (base_ccp, base_bil: the pooled and the per-counterparty P&L of the book
\* at stress 1.)
C3_ImScalesWithStress ==
    (pc = "margined" \/ (pc = "done" /\ ~AddOnEnabled)) =>
        LET base == pnl_timeseries(trades, rates, fx)
            base_ccp == aggregate_set_pnl(base, netting_set_ccp(trades)).cols[1].vals
            base_bil == aggregate_set_pnl(base, netting_sets_bilateral(trades)).cols
            im1_ccp == im_hs_var(base_ccp)
            im1_bil == [c \in DOMAIN base_bil |-> im_hs_var(base_bil[c].vals)]
        IN /\ im_hs_var(Times(stress_mult, base_ccp)) = stress_mult * im1_ccp
           /\ \A c \in DOMAIN base_bil :
                 im_hs_var(Times(stress_mult, base_bil[c].vals)) = stress_mult * im1_bil[c]
           /\ im_ccp = stress_mult * im1_ccp
           /\ im_bilateral = stress_mult * SumSeq(im1_bil)

C3_Witness ==
    /\ pc = "margined"
    /\ stress_mult = 2
    /\ im_ccp # 0
    /\ im_bilateral # im_ccp
    /\ Len(bil_pnl.cols) = 2

\* C4: the P&L of every trade on the first date of the aligned index is
\* exactly 0, also after the stress multiplier is applied.
C4_FirstDayZero ==
    Priced =>
        \A c \in DOMAIN pnl_df.cols :
            /\ Len(pnl_df.cols[c].vals) >= 1
            /\ pnl_df.cols[c].vals[1] = 0

\* a stressed book of a swap and a forward that both move on the second date
C4_Witness ==
    /\ pc = "priced"
    /\ stress_mult = 2
    /\ \E c, d \in DOMAIN pnl_df.cols :
          /\ trades[c].product = "IRS" /\ trades[d].product = "FXFWD"
          /\ pnl_df.cols[c].vals[1] = 0 /\ pnl_df.cols[c].vals[2] # 0
          /\ pnl_df.cols[d].vals[1] = 0 /\ pnl_df.cols[d].vals[2] # 0

\* C5: the IM estimate of the pipeline is 0 whenever the P&L series has
\* fewer than 10 observations, and the run does not fail for sparse data.
C5_SparseImIsZero ==
    (Netted /\ Len(ccp_pnl.cols[1].vals) < 10) =>
        /\ pc # "netted" => (im_ccp = 0 /\ im_bilateral = 0)
        /\ pc = "netted" => ENABLED Margin

\* a two-date series of one loss has gone through im_hs_var
C5_Witness ==
    /\ pc = "margined"
    /\ Len(ccp_pnl.cols[1].vals) = 2
    /\ ccp_pnl.cols[1].vals[2] < 0
    /\ im_ccp > 0

RECURSIVE Pow(_, _)
Pow(b, n) == IF n = 0 THEN 1 ELSE b * Pow(b, n - 1)

\* the counterparties whose total absolute notional exceeds the threshold
BreachingCounterparties ==
    {c \in ToSet(Counterparties) :
        SumSeq([i \in Rows |-> IF trades[i].cpty = c THEN Abs(trades[i].notional) ELSE 0])
            > conc_threshold}

\* C6 as stated: with the add-on enabled and n breaching counterparties,
\* im_bilateral is the unadjusted sum of the per-set IMs times
\* (1 + addon_pct)^n.
C6_Compounding ==
    (pc = "adjusted" /\ AddOnEnabled) =>
        im_bilateral = ImBilateral(bil_pnl)
                           * Pow(1 + conc_addon_pct, Cardinality(BreachingCounterparties))

\* C6 as amended: with the add-on enabled and n breaching counterparties,
\* im_bilateral is the unadjusted sum of the per-set IMs times
\* (1 + n * addon_pct): the surcharges add up, they do not compound.
C6_Additive ==
    (pc = "adjusted" /\ AddOnEnabled) =>
        im_bilateral = ImBilateral(bil_pnl)
                           * (1 + Cardinality(BreachingCounterparties) * conc_addon_pct)

C6_Witness ==
    /\ pc = "adjusted"
    /\ AddOnEnabled
    /\ Cardinality(BreachingCounterparties) = 2
    /\ ImBilateral(bil_pnl) # 0
    /\ im_bilateral = 3 * ImBilateral(bil_pnl)

KpisDone == pc \in {"kpis", "done"} \/ (pc = "failed" /\ Netted)

\* the pair <<n, d>> is the fraction num / den
IsFraction(pair, num, den) ==
    /\ Len(pair) = 2
    /\ pair[2] > 0
    /\ LET g == den \div pair[2] IN pair[2] * g = den /\ pair[1] * g = num

\* C7 as stated: netting_efficiency is 1 - im_ccp / im_bilateral whenever
\* im_bilateral is non-zero and not-a-number exactly when it is zero.
C7_NanIffZero ==
    KpisDone =>
        /\ im_bilateral # 0 =>
              IsFraction(kpis.net_eff, im_bilateral - im_ccp, im_bilateral)
        /\ IsNaN(kpis.net_eff) <=> im_bilateral = 0

\* C7 as amended: netting_efficiency is 1 - im_ccp / im_bilateral whenever
\* im_bilateral is greater than zero and not-a-number exactly when it is
\* not (zero or negative); computing it never ends the run.
C7_NanIffNotPositive ==
    /\ KpisDone =>
          /\ im_bilateral > 0 =>
                IsFraction(kpis.net_eff, im_bilateral - im_ccp, im_bilateral)
          /\ IsNaN(kpis.net_eff) <=> im_bilateral <= 0
    /\ pc = "adjusted" => ENABLED Kpis
    /\ pc = "kpis" => error = "none"

\* a snapshot reports an efficiency strictly between 0 and 1
C7_Witness ==
    /\ pc = "done"
    /\ 0 < im_ccp /\ im_ccp < im_bilateral
    /\ ~IsNaN(results.netting_efficiency)
    /\ results.netting_efficiency[1] > 0

\* a trade that pnl_timeseries cannot price
Unpriceable(tr) ==
    \/ tr.product \notin {"IRS", "FXFWD"}
    \/ tr.product = "FXFWD" /\ tr.ccypair \notin FxColumns

\* C8: if a trade of the book has an unsupported product, or is an FX
\* forward whose pair is not in the FX table, pnl_timeseries raises, no
\* P&L table (not even a partial one) is returned, and main produces no
\* Margin Snapshot.
C8_PricingErrorsAbort ==
    (\E i \in Rows : Unpriceable(trades[i])) =>
        /\ pc \in {"start", "failed"}
        /\ pc = "failed" => error # "none"
        /\ pnl_df = NoTable
        /\ pnl_timeseries(trades, rates, fx).error # "none"
        /\ pnl_timeseries(trades, rates, fx).cols = <<>>
        /\ Len(results) = 0

\* the run ended on the second row of a book whose first row prices
C8_Witness ==
    /\ pc = "failed"
    /\ Len(trades) = 2
    /\ ~Unpriceable(trades[1])
    /\ Unpriceable(trades[2])
    /\ Len(results) = 0

\* a trade whose product-specific fields are not populated
Unpopulated(tr) ==
    \/ tr.product = "IRS" /\ (IsNaN(tr.tenor_yrs) \/ tr.pay_fixed = "nan")
    \/ tr.product = "FXFWD" /\ (tr.ccypair = "nan" \/ tr.side \notin {"BUY", "SELL"})

\* C9: pricing fails for an IRS without tenor_yrs or pay_fixed and for an
\* FX forward without ccypair or with a side that is neither BUY nor SELL.
C9_MissingFieldsFail ==
    (\E i \in Rows : Unpopulated(trades[i])) =>
        /\ pc \in {"start", "failed"}
        /\ pnl_timeseries(trades, rates, fx).error # "none"

RECURSIVE SumFn(_, _)
SumFn(f, S) ==
    IF S = {} THEN 0
    ELSE LET x == CHOOSE x \in S : TRUE IN f[x] + SumFn(f, S \ {x})

\* the cell of trade `id` on row i of the caller's table, 0 when missing
CellOrZero(id, i) ==
    LET c == CHOOSE c \in DOMAIN pnl_df.cols : pnl_df.cols[c].name = id
    IN IF i <= Len(pnl_df.cols[c].vals) THEN pnl_df.cols[c].vals[i] ELSE 0

CalledMap == netting_sets_bilateral(trades) \o netting_set_ccp(trades)
Present(s) == ToSet(CalledMap[s].ids) \cap ColumnNames(pnl_df)

\* C10: for each named set and every date the aggregate is the sum of the
\* P&L columns of the member identifiers present in the table; absent
\* members contribute zero and never cause failure, and a set with no
\* member present aggregates to 0 on every date.
C10_Aggregation ==
    pc = "returned" =>
        /\ agg_pnl.error = "none"
        /\ Len(agg_pnl.cols) = Len(CalledMap)
        /\ agg_pnl.index = pnl_df.index
        /\ \A s \in DOMAIN CalledMap :
              /\ agg_pnl.cols[s].name = CalledMap[s].name
              /\ DOMAIN agg_pnl.cols[s].vals = DOMAIN pnl_df.index
              /\ \A i \in DOMAIN pnl_df.index :
                    /\ agg_pnl.cols[s].vals[i] =
                          SumFn([id \in Present(s) |-> CellOrZero(id, i)], Present(s))
                    /\ Present(s) = {} => agg_pnl.cols[s].vals[i] = 0

\* one set has a member in the table and one that is not, another set has
\* no member in a table that holds other trades
C10_Witness ==
    /\ pc = "returned"
    /\ \E s, t \in DOMAIN CalledMap :
          /\ Present(s) # {}
          /\ ToSet(CalledMap[s].ids) \ Present(s) # {}
          /\ agg_pnl.cols[s].vals[2] # 0
          /\ Present(t) = {}
          /\ CalledMap[t].ids # <<>>
          /\ agg_pnl.cols[t].vals = <<0, 0>>
    /\ Len(pnl_df.cols) >= 2

\* the curve point the claim names for a tenor
BucketPoint(row, tenor) ==
    IF tenor <= 2 THEN row.rate_2y
    ELSE IF 2 < tenor /\ tenor <= 5 THEN row.rate_5y
    ELSE row.rate_10y

\* the swaps of the book whose tenor and direction are populated
PopulatedSwaps ==
    {i \in Rows : /\ trades[i].product = "IRS"
                  /\ ~IsNaN(trades[i].tenor_yrs)
                  /\ trades[i].pay_fixed \in {"True", "False"}}

\* C11: for an IRS trade the P&L on every date after the first is
\* sign * dv01 * (-(rate_t - rate_{t-1})), the rate being the 2-year point
\* for tenor <= 2, the 5-year point for 2 < tenor <= 5 and the 10-year point
\* otherwise, dv01 = notional * (0.8 * tenor) * 1e-4 * 0.9 (9 * notional *
\* tenor in P&L units per basis point), sign +1 for pay_fixed and -1 for
\* receive-fixed; main scales it by stress_mult.
C11_IrsPnl ==
    \A i \in PopulatedSwaps :
        LET tenor == Val(trades[i].tenor_yrs)
            sign == IF trades[i].pay_fixed = "True" THEN 1 ELSE -1
            dv01 == 9 * trades[i].notional * tenor
            priced == pnl_irs_dv01(trades[i], rates)
            expected(t) == sign * dv01 * (-(Val(BucketPoint(rates[t], tenor))
                                            - Val(BucketPoint(rates[t - 1], tenor))))
        IN /\ priced.error = "none"
           /\ Len(priced.vals) = Len(rates)
           /\ \A t \in 2..Len(rates) :
                 /\ priced.vals[t] = expected(t)
                 /\ Priced => pnl_df.cols[i].vals[t] = stress_mult * expected(t)

\* a receiver swap at the bucket boundary 5 has been priced on a day when
\* the 5-year and the 10-year point moved differently
C11_Witness ==
    /\ pc = "priced"
    /\ 1 \in PopulatedSwaps
    /\ trades[1].tenor_yrs = Num(5) /\ trades[1].pay_fixed = "False"
    /\ Val(rates[2].rate_5y) - Val(rates[1].rate_5y) = -2
    /\ Val(rates[2].rate_10y) - Val(rates[1].rate_10y) = 4
    /\ pnl_df.cols[1].vals[2] = stress_mult * (-1) * 9 * trades[1].notional * 5 * 2

\* scenario 1: one 5-year payer swap of 1,000,000, the 5-year point at 0.0300
\* on day 1 and 0.0290 on day 2, no stress
Scenario1 ==
    /\ Len(trades) = 1
    /\ trades[1].product = "IRS"
    /\ trades[1].notional = 1
    /\ trades[1].tenor_yrs = Num(5)
    /\ trades[1].pay_fixed = "True"
    /\ Len(rates) = 2
    /\ rates[1].rate_5y = Num(300)
    /\ rates[2].rate_5y = Num(290)
    /\ stress_mult = 1

\* C12 as stated: in scenario 1 the day-2 P&L of the trade is +360.00
\* (450000 P&L units of 8e-4).
C12_Scenario1Is360 ==
    (Scenario1 /\ Priced) => pnl_df.cols[1].vals[2] = 450000

\* C12 as amended: in scenario 1 the day-2 P&L of the trade is +0.36
\* (450 P&L units of 8e-4): 360.00 is the DV01 of the trade, which the
\* formula multiplies by the rate change 0.0010; pricing does not fail.
C12_Scenario1Is036 ==
    Scenario1 =>
        /\ pc # "failed"
        /\ pnl_timeseries(trades, rates, fx).cols[1].vals = <<0, 450>>
        /\ Priced => pnl_df.cols[1].vals[2] = 450

C12_Witness ==
    /\ Scenario1
    /\ pc = "priced"
    /\ pnl_df.cols[1].name = "T1"
    /\ pnl_df.cols[1].vals[2] > 0

\* C13: for an IRS trade with positive notional and pay_fixed = true the
\* daily P&L is positive on every date on which the selected curve point is
\* higher than on the previous date and negative when it is lower; for a
\* receive-fixed trade the signs are reversed.
C13_PayerGainsWhenRatesRise ==
    Priced =>
        \A i \in PopulatedSwaps : \A t \in 2..Len(rates) :
            LET tenor == Val(trades[i].tenor_yrs)
                move == Val(BucketPoint(rates[t], tenor))
                            - Val(BucketPoint(rates[t - 1], tenor))
                pnl == pnl_df.cols[i].vals[t]
            IN trades[i].notional > 0 =>
                  IF trades[i].pay_fixed = "True"
                  THEN (move > 0 => pnl > 0) /\ (move < 0 => pnl < 0)
                  ELSE (move > 0 => pnl < 0) /\ (move < 0 => pnl > 0)

\* a payer swap has been priced on a day when its curve point rose, and
\* its P&L of that day is a loss
C13_Witness ==
    /\ pc = "priced"
    /\ 1 \in PopulatedSwaps
    /\ trades[1].pay_fixed = "True" /\ trades[1].tenor_yrs = Num(5)
    /\ trades[1].notional > 0
    /\ Val(rates[2].rate_5y) > Val(rates[1].rate_5y)
    /\ pnl_df.cols[1].vals[2] < 0

\* the forwards of the book whose pair is in the FX table and whose side is
\* BUY or SELL
PopulatedForwards ==
    {i \in Rows : /\ trades[i].product = "FXFWD"
                  /\ trades[i].ccypair \in FxColumns
                  /\ trades[i].side \in {"BUY", "SELL"}}

\* scenario 2: BUY 2,000,000 EURUSD, spot 1.1000 on day 1 and 1.1050 on day 2
Scenario2 ==
    /\ Len(trades) = 1
    /\ 1 \in PopulatedForwards
    /\ trades[1].notional = 2
    /\ trades[1].ccypair = "EURUSD" /\ trades[1].side = "BUY"
    /\ Len(fx) = 2
    /\ fx[1].EURUSD = Num(137500000)
    /\ fx[2].EURUSD = Num(138125000)
    /\ stress_mult = 1

\* C14: for an FX forward whose pair is in the FX table the P&L on every
\* row of the FX table after the first is sign * notional * (spot_t -
\* spot_{t-1}) of the trade's own pair (10 * notional * ticks in P&L units),
\* sign +1 for BUY and -1 for SELL; BUY 2,000,000 EURUSD with the spot going
\* 1.1000 -> 1.1050 gives +10,000 (12500000 P&L units).
C14_FxPnl ==
    /\ \A i \in PopulatedForwards :
          LET pair == trades[i].ccypair
              sign == IF trades[i].side = "BUY" THEN 1 ELSE -1
              priced == pnl_fxfwd(trades[i], fx)
              observed(t) == ~IsNaN(fx[t][pair]) /\ ~IsNaN(fx[t - 1][pair])
              expected(t) == sign * trades[i].notional
                                 * (Val(fx[t][pair]) - Val(fx[t - 1][pair])) * 10
          IN /\ priced.error = "none"
             /\ Len(priced.vals) = Len(fx)
             /\ \A t \in 2..Len(fx) :
                   observed(t) =>
                      /\ priced.vals[t] = expected(t)
                      /\ (Priced /\ t <= Len(pnl_df.cols[i].vals)) =>
                            pnl_df.cols[i].vals[t] = stress_mult * expected(t)
    /\ (Scenario2 /\ Priced) => pnl_df.cols[1].vals[2] = 12500000

C14_Witness ==
    /\ Scenario2
    /\ pc = "priced"
    /\ pnl_df.cols[1].vals = <<0, 12500000>>

\* every row of the book can be priced
AllPriceable ==
    /\ Rows # {}
    /\ \A i \in Rows :
          /\ ~Unpriceable(trades[i])
          /\ trades[i].product = "IRS" => ~IsNaN(trades[i].tenor_yrs)

\* the rows of the FX table that carry the date d
FxRowsOf(d) == {t \in 1..Len(fx) : fx[t].date = d}

\* C15: for a full book pnl_timeseries returns one P&L column per trade, all
\* aligned to the shared date index (that of the rates table); a forward
\* whose FX table has no observation for a date of the index has P&L 0 on
\* that date, not a missing value and not a failure; and the P&L of a
\* forward at a date is the one computed from the FX row of that same date.
C15_AlignedZeroFilled ==
    AllPriceable =>
        /\ pnl_timeseries(trades, rates, fx).error = "none"
        /\ pc # "failed"
        /\ Priced =>
              /\ Len(pnl_df.cols) = Len(trades)
              /\ pnl_df.index = Column(rates, "date")
              /\ \A i \in Rows :
                    /\ pnl_df.cols[i].name = trades[i].trade_id
                    /\ Len(pnl_df.cols[i].vals) = Len(pnl_df.index)
                    /\ trades[i].product = "FXFWD" =>
                          \A r \in 1..Len(pnl_df.cols[i].vals) :
                              LET own == FxRowsOf(pnl_df.index[r])
                              IN IF own = {} THEN pnl_df.cols[i].vals[r] = 0
                                 ELSE \E t \in own :
                                        pnl_df.cols[i].vals[r] =
                                            stress_mult * pnl_fxfwd(trades[i], fx).vals[t]

\* a book of a swap and a forward has been priced with an FX table that
\* ends one date before the rates table: the forward has no cell on the
\* last date of the index
C15_Witness ==
    /\ pc = "priced"
    /\ AllPriceable
    /\ Len(trades) = 2
    /\ trades[1].product = "IRS" /\ trades[2].product = "FXFWD"
    /\ Len(fx) = 2 /\ Len(rates) = 3
    /\ Len(pnl_df.index) = 3
    /\ Len(pnl_df.cols[2].vals) = 2

\* the sum of the 5 cells of `series` that end at position i
Trailing5(series, i) ==
    series[i - 4] + series[i - 3] + series[i - 2] + series[i - 1] + series[i]

\* `w` is the worst 5-day draw of `series`: with fewer than 5 dates it is
\* not-a-number, otherwise it is the trailing sum of some date from the 5th
\* on and no such date has a larger one
IsWorst5(w, series) ==
    IF Len(series) < 5 THEN IsNaN(w)
    ELSE /\ ~IsNaN(w)
         /\ \E i \in 5..Len(series) : Val(w) = Trailing5(series, i)
         /\ \A i \in 5..Len(series) : Val(w) >= Trailing5(series, i)

\* C16: the worst-5-day liquidity draw of each topology is the maximum over
\* the dates with at least 5 observations of the sum of the VM outflows of
\* the 5 trailing dates; the leading positions are never selected, and the
\* result is not-a-number when the series has fewer than 5 dates.
C16_Worst5 ==
    /\ pc \in {"kpis", "done"} =>
          /\ IsWorst5(kpis.worst5_bil, vm_bil_series)
          /\ IsWorst5(kpis.worst5_ccp, vm_ccp_series)
    /\ pc = "done" =>
          /\ results.worst5_liquidity_bilateral = kpis.worst5_bil
          /\ results.worst5_liquidity_ccp = kpis.worst5_ccp
    /\ pc = "adjusted" => ENABLED Kpis

\* a snapshot of a six-date path whose worst window is the second one
C16_Witness ==
    /\ pc = "done"
    /\ Len(vm_ccp_series) = 6
    /\ results.worst5_liquidity_ccp = Num(Trailing5(vm_ccp_series, 6))
    /\ Trailing5(vm_ccp_series, 6) > Trailing5(vm_ccp_series, 5)
    /\ Trailing5(vm_ccp_series, 5) > 0

\* a snapshot of a path of fewer than 5 dates with outflows
C16_ShortWitness ==
    /\ pc = "done"
    /\ Len(vm_ccp_series) \in 1..4
    /\ SumSeq(vm_ccp_series) > 0
    /\ IsNaN(results.worst5_liquidity_ccp)

\* a book of two forwards on the same pair with equal notional and opposite
\* sides, each against a counterparty
OffsettingBook ==
    /\ Len(trades) = 2
    /\ Rows \subseteq PopulatedForwards
    /\ trades[1].ccypair = trades[2].ccypair
    /\ trades[1].notional = trades[2].notional
    /\ trades[1].side # trades[2].side
    /\ trades[1].cpty # "nan" /\ trades[2].cpty # "nan"

AllZero(series) == \A i \in DOMAIN series : series[i] = 0

\* C17: for a book of two forwards with the same counterparty, the same
\* pair, equal notional and opposite sides, the aggregated P&L of the
\* counterparty's bilateral set and of the CCP set is 0 on every date, and
\* the bilateral IM and the CCP IM are both 0, for any FX path and any
\* stress multiplier.
C17_OffsettingSameCounterparty ==
    (OffsettingBook /\ trades[1].cpty = trades[2].cpty) =>
        /\ Netted =>
              /\ Len(bil_pnl.cols) = 1
              /\ bil_pnl.cols[1].name = <<"BILAT", trades[1].cpty>>
              /\ Len(bil_pnl.cols[1].vals) = Len(rates)
              /\ AllZero(bil_pnl.cols[1].vals)
              /\ Len(ccp_pnl.cols[1].vals) = Len(rates)
              /\ AllZero(ccp_pnl.cols[1].vals)
        /\ pc = "netted" => ENABLED Margin
        /\ Margined => (im_bilateral = 0 /\ im_ccp = 0)
        /\ pc = "done" => (results.im_bilateral = 0 /\ results.im_ccp = 0)

\* the IMs of a stressed offsetting book whose two trades both moved
C17_Witness ==
    /\ pc = "margined"
    /\ OffsettingBook /\ trades[1].cpty = trades[2].cpty
    /\ stress_mult = 2
    /\ Len(rates) >= 5
    /\ \E t \in 2..Len(rates) :
          pnl_df.cols[1].vals[t] > 0 /\ pnl_df.cols[2].vals[t] < 0
    /\ \E t \in 2..Len(rates) :
          pnl_df.cols[1].vals[t] < 0 /\ pnl_df.cols[2].vals[t] > 0
    /\ im_bilateral = 0 /\ im_ccp = 0

\* C18: for a book of two trades held against two different counterparties
\* with perfectly offsetting exposure (same pair, equal notional, opposite
\* side) and no concentration add-on, im_ccp <= im_bilateral, im_bilateral
\* being the sum of the per-counterparty IMs and im_ccp the IM of the pooled
\* P&L series.
C18_NettingBenefit ==
    (OffsettingBook /\ trades[1].cpty # trades[2].cpty /\ ~AddOnEnabled /\ Margined) =>
        /\ Len(bil_pnl.cols) = 2
        /\ im_bilateral = im_hs_var(bil_pnl.cols[1].vals) + im_hs_var(bil_pnl.cols[2].vals)
        /\ im_ccp = im_hs_var(ccp_pnl.cols[1].vals)
        /\ im_ccp <= im_bilateral
        /\ pc = "done" => (results.im_ccp = im_ccp /\ results.im_bilateral = im_bilateral)

\* the split book needs margin where the pooled one needs none, one of the
\* two per-counterparty IMs being negative
C18_Witness ==
    /\ pc = "margined"
    /\ OffsettingBook /\ trades[1].cpty # trades[2].cpty /\ ~AddOnEnabled
    /\ im_ccp = 0
    /\ im_bilateral > 0
    /\ \E c \in 1..2 : im_hs_var(bil_pnl.cols[c].vals) < 0

\* the total absolute notional of the whole book
BookNotional == SumSeq([i \in Rows |-> Abs(trades[i].notional)])

\* the single check of the CCP add-on
CcpBreach == conc_threshold > 0 /\ BookNotional > conc_threshold

\* C19: im_ccp is multiplied by (1 + addon_pct) exactly once if and only if
\* conc_threshold > 0 and the total absolute notional of the whole book
\* exceeds conc_threshold; when conc_threshold = 0 the add-on is disabled
\* and both im_bilateral and im_ccp equal their unadjusted HS-VaR values.
C19_CcpAddOn ==
    pc \in {"adjusted", "kpis", "done"} =>
        LET unadjusted == im_hs_var(ccp_pnl.cols[1].vals)
        IN /\ CcpBreach => im_ccp = unadjusted * (1 + conc_addon_pct)
           /\ ~CcpBreach => im_ccp = unadjusted
           /\ conc_threshold = 0 =>
                 /\ im_ccp = unadjusted
                 /\ im_bilateral = ImBilateral(bil_pnl)
           /\ pc = "done" => results.im_ccp = im_ccp

\* the book as a whole exceeds the threshold while no single counterparty
\* does: the CCP IM alone carries the surcharge, once
C19_Witness ==
    /\ pc = "adjusted"
    /\ CcpBreach
    /\ conc_addon_pct = 1
    /\ BreachingCounterparties = {}
    /\ im_hs_var(ccp_pnl.cols[1].vals) # 0
    /\ im_ccp = 2 * im_hs_var(ccp_pnl.cols[1].vals)
    /\ im_bilateral = ImBilateral(bil_pnl)

\* the row orders of a table of n rows
RowOrders(n) == {p \in [1..n -> 1..n] : \A i, j \in 1..n : i # j => p[i] # p[j]}

\* the trade table with its rows in the order p
Reordered(p) == AsTuple([i \in Rows |-> trades[p[i]]])

SetNames(netting_map) == AsTuple([s \in 1..Len(netting_map) |-> netting_map[s].name])

\* the P&L table main derives from a trade table
StressedPnl(trades_df) ==
    LET priced == pnl_timeseries(trades_df, rates, fx)
    IN IF stress_mult # 1 THEN Scale(priced, stress_mult) ELSE priced

\* C20: for two trade tables holding the same trades in different row
\* orders, netting_sets_bilateral yields the same set names in the same
\* order, each bilateral name is derived from its counterparty under a
\* namespace that can never equal the CCP set name, and aggregate_set_pnl
\* yields the same columns in the same order with the same per-date values.
C20_RowOrderIndependent ==
    pc = "netted" =>
        \A p \in RowOrders(Len(trades)) :
            LET other == Reordered(p)
                sets == netting_sets_bilateral(other)
                pnl == StressedPnl(other)
            IN /\ SetNames(sets) = SetNames(bil_sets)
               /\ \A s \in DOMAIN sets :
                     /\ sets[s].name # netting_set_ccp(other)[1].name
                     /\ sets[s].name[1] # netting_set_ccp(other)[1].name[1]
                     /\ sets[s].ids # <<>>
                     /\ \A i \in Rows :
                           other[i].trade_id \in ToSet(sets[s].ids)
                               <=> sets[s].name[2] = other[i].cpty
               /\ aggregate_set_pnl(pnl, sets).cols = bil_pnl.cols
               /\ aggregate_set_pnl(pnl, sets).index = bil_pnl.index
               /\ aggregate_set_pnl(pnl, netting_set_ccp(other)).cols = ccp_pnl.cols
               /\ compute_netting_metrics(pnl, other).cols
                     = compute_netting_metrics(pnl_df, trades).cols

\* a book whose rows are not in the order of their counterparties has been
\* netted: the sets come in counterparty order, with different P&L
C20_Witness ==
    /\ pc = "netted"
    /\ Len(trades) = 2
    /\ trades[1].cpty = "CP_B" /\ trades[2].cpty = "CP_A"
    /\ SetNames(bil_sets) = <<(<<"BILAT", "CP_A">>), (<<"BILAT", "CP_B">>)>>
    /\ bil_sets[1].ids = <<"T2">> /\ bil_sets[2].ids = <<"T1">>
    /\ bil_pnl.cols[1].vals # bil_pnl.cols[2].vals
    /\ ~AllZero(bil_pnl.cols[1].vals)

\* every trade of the book has a counterparty (trade_id is unique in every
\* book, and main prices a column for every trade)
AllWithCounterparty == \A i \in Rows : trades[i].cpty # "nan"

\* a >= b as Python evaluates it on floats: false when either is not-a-number
Geq(a, b) == ~IsNaN(a) /\ ~IsNaN(b) /\ Val(a) >= Val(b)

\* on every date the pooled P&L is the sum of the P&L of the bilateral sets,
\* and the bilateral VM outflow is at least the CCP one
DailyVmDominance ==
    /\ Len(vm_bil_series) = Len(vm_ccp_series)
    /\ \A i \in DOMAIN vm_ccp_series :
          /\ ccp_pnl.cols[1].vals[i] =
                SumSeq([c \in DOMAIN bil_pnl.cols |-> bil_pnl.cols[c].vals[i]])
          /\ vm_bil_series[i] =
                SumSeq([c \in DOMAIN bil_pnl.cols |-> Outflow(bil_pnl.cols[c].vals[i])])
          /\ vm_ccp_series[i] = Outflow(ccp_pnl.cols[1].vals[i])
          /\ vm_bil_series[i] >= vm_ccp_series[i]

\* C21 as stated: for a book in which every trade has a counterparty, a
\* unique trade_id and a P&L column, on every date the bilateral VM outflow
\* is >= the CCP VM outflow; consequently vm_bilateral_total >= vm_ccp_total
\* and worst5_liquidity_bilateral >= worst5_liquidity_ccp.
C21_VmDominance ==
    (AllWithCounterparty /\ Rows # {}) =>
        /\ Margined => DailyVmDominance
        /\ pc \in {"kpis", "done"} =>
              /\ kpis.vm_bilateral_total >= kpis.vm_ccp_total
              /\ Geq(kpis.worst5_bil, kpis.worst5_ccp)

\* C21 as amended: the daily and the total dominance hold as stated, and
\* worst5_liquidity_bilateral >= worst5_liquidity_ccp when the series have
\* at least 5 dates; with fewer than 5 dates both are not-a-number and
\* neither is >= the other.
C21_VmDominanceFrom5Dates ==
    (AllWithCounterparty /\ Rows # {}) =>
        /\ Margined => DailyVmDominance
        /\ pc \in {"kpis", "done"} =>
              /\ kpis.vm_bilateral_total >= kpis.vm_ccp_total
              /\ kpis.vm_bilateral_total = SumSeq(vm_bil_series)
              /\ kpis.vm_ccp_total = SumSeq(vm_ccp_series)
              /\ IF Len(vm_ccp_series) >= 5
                 THEN Geq(kpis.worst5_bil, kpis.worst5_ccp)
                 ELSE IsNaN(kpis.worst5_bil) /\ IsNaN(kpis.worst5_ccp)
        /\ pc = "done" =>
              /\ results.vm_bilateral_total >= results.vm_ccp_total
              /\ Len(vm_ccp_series) >= 5 =>
                    Geq(results.worst5_liquidity_bilateral, results.worst5_liquidity_ccp)

\* a snapshot of a six-date path of two counterparties whose P&L offsets:
\* the bilateral total and worst draw are strictly larger than the pooled
C21_Witness ==
    /\ pc = "done"
    /\ AllWithCounterparty
    /\ Len(bil_pnl.cols) = 2
    /\ Len(vm_ccp_series) = 6
    /\ results.vm_bilateral_total > results.vm_ccp_total
    /\ Val(results.worst5_liquidity_bilateral) > Val(results.worst5_liquidity_ccp)

\* the netting efficiency main reports for the same book, market tables and
\* concentration parameters at stress_mult = 1
EfficiencyAtStress1 ==
    LET base == pnl_timeseries(trades, rates, fx)
        bil == ImBilateral(aggregate_set_pnl(base, netting_sets_bilateral(trades)))
        ccp == im_hs_var(aggregate_set_pnl(base, netting_set_ccp(trades)).cols[1].vals)
        factor_bil == IF AddOnEnabled
                      THEN addon_factor_bil(trades, conc_threshold, conc_addon_pct)
                      ELSE 1
        factor_ccp == IF AddOnEnabled
                      THEN addon_factor_ccp(trades, conc_threshold, conc_addon_pct)
                      ELSE 1
    IN net_eff(ccp * factor_ccp, bil * factor_bil)

\* C22: for the same book, market tables and concentration parameters and
\* any stress_mult k > 0, the netting_efficiency reported at stress k equals
\* the one reported at stress 1 (both defined or both not-a-number).
C22_EfficiencyStressInvariant ==
    /\ pc = "kpis" =>
          LET at1 == EfficiencyAtStress1
          IN /\ IsNaN(kpis.net_eff) <=> IsNaN(at1)
             /\ kpis.net_eff = at1
    /\ pc = "done" => results.netting_efficiency = kpis.net_eff

\* a stressed run with the add-on applied reports an efficiency strictly
\* between 0 and 1
C22_Witness ==
    /\ pc = "kpis"
    /\ stress_mult = 2
    /\ AddOnEnabled
    /\ Len(bil_pnl.cols) = 2
    /\ ~IsNaN(kpis.net_eff)
    /\ kpis.net_eff[1] > 0 /\ kpis.net_eff[1] < kpis.net_eff[2]
    /\ kpis.net_eff = EfficiencyAtStress1

\* a stressed run whose bilateral IM is not positive reports not-a-number,
\* as the unstressed run does
C22_NanWitness ==
    /\ pc = "kpis"
    /\ stress_mult = 2
    /\ im_bilateral < 0
    /\ IsNaN(kpis.net_eff) /\ IsNaN(EfficiencyAtStress1)

=============================================================================
